---- MODULE Spec2Model ----
(***************************************************************************)
(* Model of app.py: the /chat turn handler, the patient profile generator, *)
(* the session store (RAM list or Mongo collection) and the per-thread     *)
(* memory of the compiled agent graph.  Requests are served by the threads *)
(* of the Flask server; the steps of a request are split where it reads or *)
(* writes shared state or blocks on a network call.  use_mongo is fixed at  *)
(* start-up and chat() does the same reads and writes on either store, so  *)
(* one sequence of documents stands for both; get_sessions, which orders   *)
(* the two stores differently, takes the flag as a parameter.              *)
(***************************************************************************)
EXTENDS Integers, Sequences, FiniteSets, TLC

\* ---------------------------------------------------------------- bounds
\* Number of /chat requests received in one behaviour.
MaxRequests == 2

\* Longest generator reply, in tokens, handed to create_patient_profile alone.
MaxTextLen == 3

\* Number of /register requests received in one behaviour.
MaxRegisters == 3

\* The server threads that run chat() side by side; a thread takes the next
\* request once it has answered the last one.
Requests == {1, 2}

\* ---------------------------------------------------------------- JSON values
\* A JSON value of a profile field: absent key, string, integer or list of
\* strings.  One record shape for all kinds so that values compare.
Absent == [kind |-> "absent", s |-> "", n |-> 0, l |-> <<>>]
Str(x) == [kind |-> "str", s |-> x, n |-> 0, l |-> <<>>]
Num(x) == [kind |-> "int", s |-> "", n |-> x, l |-> <<>>]
List(x) == [kind |-> "list", s |-> "", n |-> 0, l |-> x]

\* json.loads of a text without any key: the empty dict.
EmptyDict ==
    [name |-> Absent, age |-> Absent, sex |-> Absent, disease |-> Absent,
     visible_symptoms |-> Absent, secret_symptom |-> Absent,
     pain_description |-> Absent, treatment |-> Absent]

\* The fallback profile of create_patient_profile.
DefaultProfile ==
    [name |-> Str("Alex"), age |-> Num(30), sex |-> Str("Male"),
     disease |-> Str("Migraine"),
     visible_symptoms |-> List(<<"Headache", "Light sensitivity">>),
     secret_symptom |-> Str("Nausea"),
     pain_description |-> Str("Throbbing"),
     treatment |-> List(<<"Triptans">>)]

\* ---------------------------------------------------------------- generator text
\* The generator's reply is a sequence of tokens: braces, markdown fences,
\* prose, and member lists of a JSON object.  "B_..." tokens are well-formed
\* member lists; "trunc" is a member list cut off in the middle.
FullBody ==
    [name |-> Str("Bo"), age |-> Num(41), sex |-> Str("Female"),
     disease |-> Str("IBS"),
     visible_symptoms |-> List(<<"Cramps", "Bloating">>),
     secret_symptom |-> Str("Blood"),
     pain_description |-> Absent,
     treatment |-> List(<<"Fiber">>)]

Body(tok) ==
    CASE tok = "B_full" -> FullBody
      [] tok = "B_str" -> [FullBody EXCEPT !.name = Str("Cy"),
                                           !.visible_symptoms = Str("Rash")]
      [] tok = "B_notreat" -> [FullBody EXCEPT !.treatment = Absent]
      [] tok = "B_nosym" -> [FullBody EXCEPT !.visible_symptoms = Absent]
      [] tok = "B_emptysym" -> [FullBody EXCEPT !.visible_symptoms = List(<<>>)]
      [] tok = "B_noage" -> [FullBody EXCEPT !.age = Absent]
      [] tok = "B_noname" -> [FullBody EXCEPT !.name = Absent]

BodyTokens ==
    {"B_full", "B_str", "B_notreat", "B_nosym", "B_emptysym", "B_noage",
     "B_noname"}

\* Replies the generator gives in the chat model: a fenced object whose
\* visible_symptoms is one string, objects with a key missing, prose only,
\* and texts json.loads rejects.
GeneratorOutputs ==
    { <<"fence_json", "{", "B_str", "}", "fence">>,
      <<"{", "B_nosym", "}">>,
      <<"{", "B_noage", "}">>,
      <<"prose">>,
      <<"{", "trunc">>,
      <<"{", "trunc", "}">>,
      <<"}", "{">>,
      <<"{", "}">> }

\* llm.invoke raised instead of answering.
NoText == <<"<raised>">>

\* re.sub over the code-fence markers: the fence tokens are dropped.
RECURSIVE StripFences(_)
StripFences(text) ==
    IF text = <<>> THEN <<>>
    ELSE IF Head(text) \in {"fence_json", "fence"} THEN StripFences(Tail(text))
    ELSE <<Head(text)>> \o StripFences(Tail(text))

\* str.find: 0-based index of the first occurrence, -1 when there is none.
find(text, tok) ==
    IF \E i \in 1..Len(text) : text[i] = tok
    THEN (CHOOSE i \in 1..Len(text) :
            text[i] = tok /\ \A j \in 1..(i - 1) : text[j] # tok) - 1
    ELSE -1

\* str.rfind: 0-based index of the last occurrence, -1 when there is none.
rfind(text, tok) ==
    IF \E i \in 1..Len(text) : text[i] = tok
    THEN (CHOOSE i \in 1..Len(text) :
            text[i] = tok /\ \A j \in (i + 1)..Len(text) : text[j] # tok) - 1
    ELSE -1

\* text[a:b] for 0 <= a, 0 <= b.
Slice(text, a, b) ==
    IF b <= a THEN <<>>
    ELSE SubSeq(text, a + 1, IF b > Len(text) THEN Len(text) ELSE b)

\* json.loads: a value, or raised.
json_loads(sub) ==
    IF sub = <<"{", "}">> THEN [raised |-> FALSE, val |-> EmptyDict]
    ELSE IF Len(sub) = 3 /\ sub[1] = "{" /\ sub[3] = "}" /\ sub[2] \in BodyTokens
    THEN [raised |-> FALSE, val |-> Body(sub[2])]
    ELSE [raised |-> TRUE, val |-> EmptyDict]

clean_json_output(text) ==
    LET t == StripFences(text)
        start_idx == find(t, "{")
        end_idx == rfind(t, "}") + 1
    IN  IF start_idx # -1 /\ end_idx # -1
        THEN json_loads(Slice(t, start_idx, end_idx))
        ELSE [raised |-> FALSE, val |-> EmptyDict]

\* create_patient_profile on the generator reply text (NoText: the call
\* itself raised).
create_patient_profile(text) ==
    IF text = NoText THEN DefaultProfile
    ELSE LET r == clean_json_output(text)
         IN  IF r.raised THEN DefaultProfile
             ELSE IF r.val.visible_symptoms.kind = "str"
             THEN [r.val EXCEPT !.visible_symptoms = List(<<r.val.visible_symptoms.s>>)]
             ELSE r.val

\* ---------------------------------------------------------------- persona prompt
Show(v) == IF v.kind = "int" THEN ToString(v.n) ELSE v.s

\* p[key] raises KeyError for an absent key.
HasKeys(p) ==
    /\ p.name.kind # "absent"
    /\ p.age.kind # "absent"
    /\ p.sex.kind # "absent"
    /\ p.disease.kind # "absent"
    /\ p.visible_symptoms.kind # "absent"
    /\ p.secret_symptom.kind # "absent"
    /\ p.treatment.kind # "absent"

\* p['visible_symptoms'][0] raises on an empty list (or string) and on an
\* integer; ', '.join(p['treatment']) raises on an integer.
PromptRaises(p) ==
    \/ ~HasKeys(p)
    \/ p.visible_symptoms.kind = "int"
    \/ p.visible_symptoms.kind = "list" /\ p.visible_symptoms.l = <<>>
    \/ p.visible_symptoms.kind = "str" /\ p.visible_symptoms.s = ""
    \/ p.treatment.kind = "int"

\* build_system_prompt: the rendered instruction text, as the sequence of
\* its variable parts between the fixed headings of the template.
build_system_prompt(p) ==
    IF PromptRaises(p) THEN [raised |-> TRUE, val |-> <<>>]
    ELSE [raised |-> FALSE,
          val |-> <<"ROLE", Show(p.name), Show(p.age), Show(p.sex),
                    "Disease", Show(p.disease), "Main Symptom">>
                  \o (IF p.visible_symptoms.kind = "list"
                      THEN <<Head(p.visible_symptoms.l), "Other Symptoms">>
                           \o Tail(p.visible_symptoms.l)
                      ELSE <<p.visible_symptoms.s, "Other Symptoms">>)
                  \o <<"Secret", Show(p.secret_symptom), "Pain",
                       IF p.pain_description.kind = "absent" THEN "bad"
                       ELSE Show(p.pain_description),
                       "CURE">>
                  \o (IF p.treatment.kind = "list" THEN p.treatment.l
                      ELSE <<p.treatment.s>>)]

SystemMessage(content) == [type |-> "system", content |-> content]
HumanMessage(content) == [type |-> "human", content |-> content]
AIMessage(content) == [type |-> "ai", content |-> content]

\* ---------------------------------------------------------------- requests
None == "<None>"
Uids == {"u1", "u2"}
Tids == {"t1", "t2"}
Msgs == {"hi"}

\* JSON bodies of the /chat requests: every complete one, and some with a
\* field missing or empty.
ChatBodies ==
    [user_id : Uids, thread_id : Tids, message : Msgs]
    \cup { [user_id |-> "u1", thread_id |-> None, message |-> "hi"],
           [user_id |-> "u1", thread_id |-> "t1", message |-> ""],
           [user_id |-> None, thread_id |-> "t1", message |-> "hi"] }

\* The names of users and threads are interchangeable: the first request
\* received is one of user u1 on thread t1.
FirstBodies ==
    {b \in ChatBodies : b.user_id \in {"u1", None} /\ b.thread_id \in {"t1", None}}

\* Python truthiness of a string-or-None field.
Truthy(v) == v # None /\ v # ""

\* Replies of the conversational model.
ModelReplies == {"reply"}

NoProfile == EmptyDict
NoResponse ==
    [status |-> 0, kind |-> "none", error |-> "", response |-> "",
     patient_info |-> [name |-> Absent, age |-> Absent, sex |-> Absent]]

\* The locals of one run of chat().  profile is the local of that name on
\* the new-session path and current_profile on both paths (one object).
NoLocals ==
    [uid |-> None, tid |-> None, msg |-> None, found |-> FALSE,
     profile |-> NoProfile, created_at |-> 0,
     inputs |-> <<>>, state |-> <<>>, model_failed |-> FALSE, bot_text |-> ""]

\* ---------------------------------------------------------------- register requests
Usernames == {"ann", "bob"}
Passwords == {"pw"}

\* The JSON bodies of POST /register: two usernames with a password, a body
\* without username, one with an empty username, one without password.
RegisterBodies ==
    [username : Usernames, password : Passwords]
        \cup { [username |-> None, password |-> "pw"],
               [username |-> "", password |-> "pw"],
               [username |-> "ann", password |-> None] }

\* bcrypt.generate_password_hash(password).decode('utf-8')
generate_password_hash(password) == <<"$2b$", password>>

NoRegLocals == [username |-> None, password |-> None, hashed_pw |-> <<>>]

NoRegResponse == [status |-> 0, error |-> "", message |-> "", user_id |-> -1]

VARIABLES
    sessions,    \* ram_db["sessions"] / sessions_col, in insertion order
    memory,      \* MemorySaver: thread_id -> checkpointed messages
    clock,       \* datetime.datetime.now()
    pc,          \* position of each request in chat()
    loc,         \* locals of each request
    resp,        \* the HTTP response of each request
    gen_calls,   \* per request: calls of the profile generator
    model_calls, \* per request: calls of the conversational model
    store_writes, \* per request: writes to the session store
    received,    \* number of requests received so far
    gen_text,    \* a generator reply handed to create_patient_profile alone
    gen_phase,   \* "off" | "call" | "returned"
    gen_profile, \* what create_patient_profile returned for gen_text
    users,       \* ram_db["users"] or the users collection, in insertion order
    reg_pc,      \* where each register request is: check | insert | done
    reg_loc,     \* the locals of register(): username, password, hashed_pw
    reg_resp,    \* the HTTP response of each register request
    registered   \* number of register requests received so far

genvars == <<gen_text, gen_phase, gen_profile>>

authvars == <<users, reg_pc, reg_loc, reg_resp, registered>>

vars ==
    <<sessions, memory, clock, pc, loc, resp, gen_calls, model_calls,
      store_writes, received, genvars, authvars>>

chatvars ==
    <<sessions, memory, clock, pc, loc, resp, gen_calls, model_calls,
      store_writes, received>>

Init ==
    /\ sessions = <<>>
    /\ memory = [t \in Tids |-> <<>>]
    /\ clock = 1
    /\ pc = [r \in Requests |-> "done"]
    /\ loc = [r \in Requests |-> NoLocals]
    /\ resp = [r \in Requests |-> NoResponse]
    /\ gen_calls = [r \in Requests |-> 0]
    /\ model_calls = [r \in Requests |-> 0]
    /\ store_writes = [r \in Requests |-> 0]
    /\ received = 0
    /\ gen_text = <<>>
    /\ gen_phase = "off"
    /\ gen_profile = NoProfile
    /\ users = <<>>
    /\ reg_pc = [r \in Requests |-> "done"]
    /\ reg_loc = [r \in Requests |-> NoRegLocals]
    /\ reg_resp = [r \in Requests |-> NoRegResponse]
    /\ registered = 0

\* ---------------------------------------------------------------- store helpers
\* Index of the first stored session of thread tid, 0 when there is none:
\* the for-loop over ram_db["sessions"], find_one and update_one.
find_one(ss, tid) ==
    IF \E i \in 1..Len(ss) : ss[i].thread_id = tid
    THEN CHOOSE i \in 1..Len(ss) :
            ss[i].thread_id = tid /\ \A j \in 1..(i - 1) : ss[j].thread_id # tid
    ELSE 0

new_session(tid, uid, profile, now) ==
    [thread_id |-> tid, user_id |-> uid, patient_name |-> profile.name,
     disease |-> profile.disease, patient_data |-> profile,
     messages |-> <<>>, created_at |-> now]

\* new_messages with the reply recorded before the utterance.
new_messages_reply_first(msg, bot_text) ==
    << [role |-> "Patient", content |-> bot_text],
       [role |-> "Doctor", content |-> msg] >>

new_messages(msg, bot_text) ==
    << [role |-> "Doctor", content |-> msg],
       [role |-> "Patient", content |-> bot_text] >>

\* push_messages with the transcript assigned instead of extended.
push_messages_overwrite(ss, tid, recs) ==
    LET i == find_one(ss, tid)
    IN  IF i = 0 THEN ss
        ELSE [ss EXCEPT ![i].messages = recs]

\* push_messages with the records appended to the newest stored session,
\* whatever its thread.
push_messages_newest(ss, tid, recs) ==
    IF ss = <<>> THEN ss
    ELSE [ss EXCEPT ![Len(ss)].messages = @ \o recs]

\* s["messages"].extend(new_messages) on the first session of the thread.
push_messages(ss, tid, recs) ==
    LET i == find_one(ss, tid)
    IN  IF i = 0 THEN ss
        ELSE [ss EXCEPT ![i].messages = @ \o recs]

ErrorResponse(status, kind, error) ==
    [NoResponse EXCEPT !.status = status, !.kind = kind, !.error = error]

\* An exception outside the try block of chat(): Flask answers with its own
\* 500 page, not with the handler's JSON body.
Escaped == ErrorResponse(500, "html", "unhandled")

\* BadRequest with the message left out of the test.
BadRequest_no_message(body) ==
    ~(Truthy(body.user_id) /\ Truthy(body.thread_id))

\* not all([uid, tid, msg])
BadRequest(body) ==
    ~(Truthy(body.user_id) /\ Truthy(body.thread_id) /\ Truthy(body.message))

\* The handler has returned: its locals are gone, the request body stays.
Returned(l) == [NoLocals EXCEPT !.uid = l.uid, !.tid = l.tid, !.msg = l.msg]

\* ---------------------------------------------------------------- chat()
\* Lines 251-270 and, when a session is found, 296-299: read the body,
\* reject it when a field is falsy, else look the thread's session up.
\* A free thread takes the request (the lowest free one: which thread runs
\* a request makes no difference to the program).
Receive(r, body) ==
    /\ pc[r] = "done"
    /\ \A q \in Requests : q < r => pc[q] # "done"
    /\ received < MaxRequests
    /\ received = 0 => body \in FirstBodies
    /\ received' = received + 1
    /\ gen_calls' = [gen_calls EXCEPT ![r] = 0]
    /\ model_calls' = [model_calls EXCEPT ![r] = 0]
    /\ store_writes' = [store_writes EXCEPT ![r] = 0]
    /\ IF BadRequest(body)
       THEN /\ pc' = [pc EXCEPT ![r] = "done"]
            /\ resp' = [resp EXCEPT ![r] = ErrorResponse(400, "json", "Bad Request")]
            /\ loc' = [loc EXCEPT ![r] = [NoLocals EXCEPT !.uid = body.user_id,
                                                         !.tid = body.thread_id,
                                                         !.msg = body.message]]
       ELSE /\ resp' = [resp EXCEPT ![r] = NoResponse]
            /\ LET i == find_one(sessions, body.thread_id)
               IN  IF i = 0
                   THEN /\ pc' = [pc EXCEPT ![r] = "gen"]
                        /\ loc' = [loc EXCEPT
                                    ![r] = [NoLocals EXCEPT
                                             !.uid = body.user_id,
                                             !.tid = body.thread_id,
                                             !.msg = body.message]]
                   ELSE /\ pc' = [pc EXCEPT ![r] = "invoke"]
                        /\ loc' = [loc EXCEPT
                                    ![r] = [NoLocals EXCEPT
                                             !.uid = body.user_id,
                                             !.tid = body.thread_id,
                                             !.msg = body.message,
                                             !.found = TRUE,
                                             !.profile = sessions[i].patient_data,
                                             !.inputs = <<HumanMessage(<<body.message>>)>>]]
    /\ UNCHANGED <<sessions, memory, clock, genvars, authvars>>

\* Lines 274-283: generate the profile and build the session document;
\* profile['name'] and profile['disease'] raise outside the try block.
NewSession(r, text) ==
    /\ pc[r] = "gen"
    /\ gen_calls' = [gen_calls EXCEPT ![r] = @ + 1]
    /\ LET profile == create_patient_profile(text)
       IN  IF profile.name.kind = "absent" \/ profile.disease.kind = "absent"
           THEN /\ pc' = [pc EXCEPT ![r] = "done"]
                /\ loc' = [loc EXCEPT ![r] = Returned(@)]
                /\ resp' = [resp EXCEPT ![r] = Escaped]
                /\ clock' = clock
           ELSE /\ pc' = [pc EXCEPT ![r] = "insert"]
                /\ loc' = [loc EXCEPT ![r].profile = profile,
                                      ![r].created_at = clock]
                /\ resp' = resp
                /\ clock' = clock + 1
    /\ UNCHANGED <<sessions, memory, model_calls, store_writes, received, genvars,
                   authvars>>

\* Lines 285-295: store the session, then seed the conversation;
\* build_system_prompt raises outside the try block, after the insert.
InsertSession(r) ==
    /\ pc[r] = "insert"
    /\ sessions' = Append(sessions,
                          new_session(loc[r].tid, loc[r].uid, loc[r].profile,
                                      loc[r].created_at))
    /\ store_writes' = [store_writes EXCEPT ![r] = @ + 1]
    /\ LET prompt == build_system_prompt(loc[r].profile)
       IN  IF prompt.raised
           THEN /\ pc' = [pc EXCEPT ![r] = "done"]
                /\ resp' = [resp EXCEPT ![r] = Escaped]
                /\ loc' = [loc EXCEPT ![r] = Returned(@)]
           ELSE /\ pc' = [pc EXCEPT ![r] = "invoke"]
                /\ resp' = resp
                /\ loc' = [loc EXCEPT
                            ![r].inputs = << SystemMessage(prompt.val),
                                             HumanMessage(<<loc[r].msg>>) >>]
    /\ UNCHANGED <<memory, clock, gen_calls, model_calls, received, genvars, authvars>>

\* Line 302, entry of agent.invoke: the thread's checkpoint is loaded, the
\* inputs are added to its messages (operator.add) and checkpointed.
AgentInvoke(r) ==
    /\ pc[r] = "invoke"
    /\ LET state == memory[loc[r].tid] \o loc[r].inputs
       IN  /\ loc' = [loc EXCEPT ![r].state = state]
           /\ memory' = [memory EXCEPT ![loc[r].tid] = state]
    /\ pc' = [pc EXCEPT ![r] = "node"]
    /\ UNCHANGED <<sessions, clock, resp, gen_calls, model_calls, store_writes,
                   received, genvars, authvars>>

\* bot_response_node with the model called a second time when it fails.
bot_response_node_retry(r, ok, reply) ==
    /\ pc[r] = "node"
    /\ model_calls' = [model_calls EXCEPT ![r] = @ + (IF ok THEN 1 ELSE 2)]
    /\ LET response == IF ok THEN AIMessage(<<reply>>) ELSE HumanMessage(<<"...">>)
           state == loc[r].state \o <<response>>
       IN  /\ memory' = [memory EXCEPT ![loc[r].tid] = state]
           /\ loc' = [loc EXCEPT ![r].state = state,
                                 ![r].model_failed = ~ok,
                                 ![r].bot_text = response.content[1]]
    /\ pc' = [pc EXCEPT ![r] = "save"]
    /\ UNCHANGED <<sessions, clock, resp, gen_calls, store_writes, received, genvars,
                   authvars>>

\* Lines 230-237 and 303: the model answers or fails; the node's message is
\* added to the thread's messages and checkpointed.
bot_response_node(r, ok, reply) ==
    /\ pc[r] = "node"
    /\ model_calls' = [model_calls EXCEPT ![r] = @ + 1]
    /\ LET response == IF ok THEN AIMessage(<<reply>>) ELSE HumanMessage(<<"...">>)
           state == loc[r].state \o <<response>>
       IN  /\ memory' = [memory EXCEPT ![loc[r].tid] = state]
           /\ loc' = [loc EXCEPT ![r].state = state,
                                 ![r].model_failed = ~ok,
                                 ![r].bot_text = response.content[1]]
    /\ pc' = [pc EXCEPT ![r] = "save"]
    /\ UNCHANGED <<sessions, clock, resp, gen_calls, store_writes, received, genvars,
                   authvars>>

\* The body of the 200 answer: the reply and three fields of the profile.
OkResponse(bot_text, p) ==
    [status |-> 200, kind |-> "json", error |-> "", response |-> bot_text,
     patient_info |-> [name |-> p.name, age |-> p.age, sex |-> p.sex]]

\* Lines 305-332: append the turn to the stored session and answer; a
\* missing name, age or sex raises inside the try block, after the append.
SaveHistory(r) ==
    /\ pc[r] = "save"
    /\ sessions' = push_messages(sessions, loc[r].tid,
                                 new_messages(loc[r].msg, loc[r].bot_text))
    /\ store_writes' = [store_writes EXCEPT ![r] = @ + 1]
    /\ LET p == loc[r].profile
       IN  IF p.name.kind = "absent" \/ p.age.kind = "absent" \/ p.sex.kind = "absent"
           THEN resp' = [resp EXCEPT
                          ![r] = ErrorResponse(500, "json", "Internal server error")]
           ELSE resp' = [resp EXCEPT ![r] = OkResponse(loc[r].bot_text, p)]
    /\ pc' = [pc EXCEPT ![r] = "done"]
    /\ loc' = [loc EXCEPT ![r] = Returned(@)]
    /\ UNCHANGED <<memory, clock, gen_calls, model_calls, received, genvars, authvars>>

\* ---------------------------------------------------------------- get_sessions()
RECURSIVE Reverse(_)
Reverse(s) == IF s = <<>> THEN <<>> ELSE Reverse(Tail(s)) \o <<Head(s)>>

RECURSIVE Filter(_, _)
Filter(ss, uid) ==
    IF ss = <<>> THEN <<>>
    ELSE IF Head(ss).user_id = uid THEN <<Head(ss)>> \o Filter(Tail(ss), uid)
    ELSE Filter(Tail(ss), uid)

\* sort("created_at", -1): insertion sort, descending, stable.
RECURSIVE InsertDesc(_, _)
InsertDesc(s, sorted) ==
    IF sorted = <<>> THEN <<s>>
    ELSE IF Head(sorted).created_at >= s.created_at
    THEN <<Head(sorted)>> \o InsertDesc(s, Tail(sorted))
    ELSE <<s>> \o sorted

RECURSIVE SortDesc(_)
SortDesc(ss) ==
    IF ss = <<>> THEN <<>>
    ELSE InsertDesc(ss[Len(ss)], SortDesc(SubSeq(ss, 1, Len(ss) - 1)))

\* The sessions get_sessions(user_id) lists, in the order it lists them.
listed_sessions(mongo, ss, user_id) ==
    IF mongo THEN SortDesc(Filter(ss, user_id))
    ELSE Filter(Reverse(ss), user_id)

get_sessions(mongo, ss, user_id) ==
    LET l == listed_sessions(mongo, ss, user_id)
    IN  [i \in 1..Len(l) |->
            [thread_id |-> l[i].thread_id, patient |-> l[i].patient_name,
             disease |-> l[i].disease]]

\* ---------------------------------------------------------------- register()
\* Index of the first stored user called username, 0 when there is none:
\* users_col.find_one and the for-loop over ram_db["users"].
find_user(us, username) ==
    IF \E i \in 1..Len(us) : us[i].username = username
    THEN CHOOSE i \in 1..Len(us) :
            us[i].username = username /\ \A j \in 1..(i - 1) : us[j].username # username
    ELSE 0

RegResponse(status, error, message, user_id) ==
    [status |-> status, error |-> error, message |-> message, user_id |-> user_id]

\* Lines 71-78: read the body, reject it when a field is falsy, else hash
\* the password. A free thread takes the request, the lowest free one.
register(r, body) ==
    /\ reg_pc[r] = "done"
    /\ \A q \in Requests : q < r => reg_pc[q] # "done"
    /\ registered < MaxRegisters
    /\ registered' = registered + 1
    /\ IF ~Truthy(body.username) \/ ~Truthy(body.password)
       THEN /\ reg_pc' = [reg_pc EXCEPT ![r] = "done"]
            /\ reg_resp' = [reg_resp EXCEPT
                             ![r] = RegResponse(400, "Missing fields", "", -1)]
            /\ reg_loc' = [reg_loc EXCEPT
                            ![r] = [NoRegLocals EXCEPT !.username = body.username,
                                                       !.password = body.password]]
       ELSE /\ reg_pc' = [reg_pc EXCEPT ![r] = "check"]
            /\ reg_resp' = [reg_resp EXCEPT ![r] = NoRegResponse]
            /\ reg_loc' = [reg_loc EXCEPT
                            ![r] = [username |-> body.username,
                                    password |-> body.password,
                                    hashed_pw |-> generate_password_hash(body.password)]]
    /\ UNCHANGED <<users, chatvars, genvars>>

\* Lines 81-82 and 92-94: answer 400 when a stored user has the username.
register_lookup(r) ==
    /\ reg_pc[r] = "check"
    /\ IF find_user(users, reg_loc[r].username) # 0
       THEN /\ reg_pc' = [reg_pc EXCEPT ![r] = "done"]
            /\ reg_resp' = [reg_resp EXCEPT
                             ![r] = RegResponse(400, "User already exists", "", -1)]
       ELSE /\ reg_pc' = [reg_pc EXCEPT ![r] = "insert"]
            /\ reg_resp' = reg_resp
    /\ UNCHANGED <<users, reg_loc, registered, chatvars, genvars>>

\* Lines 84-90 and 96-99: store the user and answer 201. The user id is
\* the number of users stored before (RAM); the Mongo branch returns the
\* inserted document's id.
register_insert(r) ==
    /\ reg_pc[r] = "insert"
    /\ LET new_id == Len(users)
       IN  /\ users' = Append(users, [id |-> new_id,
                                      username |-> reg_loc[r].username,
                                      password |-> reg_loc[r].hashed_pw])
           /\ reg_resp' = [reg_resp EXCEPT
                            ![r] = RegResponse(201, "", "User created", new_id)]
    /\ reg_pc' = [reg_pc EXCEPT ![r] = "done"]
    /\ UNCHANGED <<reg_loc, registered, chatvars, genvars>>

AuthNext ==
    \/ \E r \in Requests, body \in RegisterBodies : register(r, body)
    \/ \E r \in Requests : register_lookup(r)
    \/ \E r \in Requests : register_insert(r)

SpecAuth == Init /\ [][AuthNext]_vars

\* ---------------------------------------------------------------- specification
Next ==
    \/ \E r \in Requests, body \in ChatBodies : Receive(r, body)
    \/ \E r \in Requests, text \in GeneratorOutputs \cup {NoText} : NewSession(r, text)
    \/ \E r \in Requests : InsertSession(r)
    \/ \E r \in Requests : AgentInvoke(r)
    \/ \E r \in Requests, ok \in BOOLEAN, reply \in ModelReplies :
          bot_response_node(r, ok, reply)
    \/ \E r \in Requests : SaveHistory(r)

Spec == Init /\ [][Next]_vars

\* ---------------------------------------------------------------- the generator alone
Tokens == {"{", "}", "fence_json", "fence", "prose", "trunc"} \cup BodyTokens

\* Every reply of at most MaxTextLen tokens, the replies of the chat model,
\* and the failed call.
Texts ==
    UNION {[1..k -> Tokens] : k \in 0..MaxTextLen}
        \cup GeneratorOutputs \cup {NoText}

GenInit ==
    /\ sessions = <<>>
    /\ memory = [t \in Tids |-> <<>>]
    /\ clock = 1
    /\ pc = [r \in Requests |-> "done"]
    /\ loc = [r \in Requests |-> NoLocals]
    /\ resp = [r \in Requests |-> NoResponse]
    /\ gen_calls = [r \in Requests |-> 0]
    /\ model_calls = [r \in Requests |-> 0]
    /\ store_writes = [r \in Requests |-> 0]
    /\ received = 0
    /\ gen_text \in Texts
    /\ gen_phase = "call"
    /\ gen_profile = NoProfile
    /\ users = <<>>
    /\ reg_pc = [r \in Requests |-> "done"]
    /\ reg_loc = [r \in Requests |-> NoRegLocals]
    /\ reg_resp = [r \in Requests |-> NoRegResponse]
    /\ registered = 0

\* Lines 176-191: one call of create_patient_profile on the reply gen_text.
Generate ==
    /\ gen_phase = "call"
    /\ gen_profile' = create_patient_profile(gen_text)
    /\ gen_phase' = "returned"
    /\ UNCHANGED <<sessions, memory, clock, pc, loc, resp, gen_calls, model_calls,
                   store_writes, received, gen_text, authvars>>

GenNext == Generate

SpecGen == GenInit /\ [][GenNext]_vars

\* ---------------------------------------------------------------- claims
\* Indices of the stored sessions of thread t.
SessionsOf(t) == {i \in 1..Len(sessions) : sessions[i].thread_id = t}

\* C1: in every reachable state at most one stored session has a given
\* thread_id, also when first turns on one thread_id run concurrently.
C1_OneSessionPerThread ==
    \A t \in Tids : Cardinality(SessionsOf(t)) <= 1

\* A reply is malformed when, fences removed, it has no opening or no
\* closing brace, the text between the first opening and the last closing
\* brace is no JSON object, or the object lacks name, disease, a non-empty
\* visible_symptoms or a non-empty treatment.
MissingRequired(p) ==
    \/ p.name.kind = "absent"
    \/ p.disease.kind = "absent"
    \/ p.treatment.kind = "absent"
    \/ p.treatment.kind = "list" /\ p.treatment.l = <<>>
    \/ p.visible_symptoms.kind = "absent"
    \/ p.visible_symptoms.kind = "list" /\ p.visible_symptoms.l = <<>>

Malformed(text) ==
    LET t == StripFences(text)
        parsed == json_loads(Slice(t, find(t, "{"), rfind(t, "}") + 1))
    IN  \/ find(t, "{") = -1
        \/ rfind(t, "}") = -1
        \/ parsed.raised
        \/ MissingRequired(parsed.val)

\* C3: for every malformed generator reply create_patient_profile returns
\* the fixed default case (Alex / Migraine).
C3_MalformedGivesDefault ==
    (gen_phase = "returned" /\ gen_text # NoText /\ Malformed(gen_text))
        => gen_profile = DefaultProfile

\* The model input of a first turn: persona instructions, then the utterance.
SeedInputs(profile, msg) ==
    << SystemMessage(build_system_prompt(profile).val), HumanMessage(<<msg>>) >>

\* C2: a chat call that finds no session of its thread_id creates exactly one
\* session and passes [persona instructions, utterance] to the model; a call
\* that finds the session passes only [utterance].
C2_FirstTurnSeedsOnce ==
    \A r \in Requests :
        /\ pc[r] \in {"invoke", "node", "save"} =>
              IF loc[r].found
              THEN loc[r].inputs = <<HumanMessage(<<loc[r].msg>>)>>
              ELSE /\ loc[r].inputs = SeedInputs(loc[r].profile, loc[r].msg)
                   /\ Cardinality(SessionsOf(loc[r].tid)) = 1
        /\ (pc[r] = "done" /\ gen_calls[r] = 1) =>
              /\ model_calls[r] = 1
              /\ Cardinality(SessionsOf(loc[r].tid)) = 1

\* The step in which request r saves the turn and answers.
Saves(r) == pc[r] = "save" /\ pc'[r] = "done"

\* The step appends exactly recs to the first session of thread tid and
\* leaves every other session as it is.
AppendsTo(tid, recs) ==
    LET i == find_one(sessions, tid)
    IN  /\ i # 0
        /\ Len(sessions') = Len(sessions)
        /\ sessions'[i].messages = sessions[i].messages \o recs
        /\ \A j \in 1..Len(sessions) : j # i => sessions'[j] = sessions[j]

\* C4: when the conversational model call fails during a turn, the turn
\* answers with reply "..." and exactly two records, the doctor utterance
\* and the patient reply "...", are appended to the thread's transcript.
C4_ModelFailureStillAppends ==
    [][\A r \in Requests :
          (Saves(r) /\ loc[r].model_failed) =>
              /\ AppendsTo(loc[r].tid,
                           << [role |-> "Doctor", content |-> loc[r].msg],
                              [role |-> "Patient", content |-> "..."] >>)
              /\ resp'[r].status = 200
              /\ resp'[r].response = "..."]_vars

\* The step in which thread r of the server receives a request.
Receives(r) ==
    /\ received' = received + 1
    /\ pc[r] = "done"
    /\ \A q \in Requests : q < r => pc[q] # "done"

\* C5: a chat request whose message is empty or whose thread_id is missing
\* is answered 400 at once; the sessions, their transcripts and the model's
\* thread memory stay as they are, no profile is generated, no model called.
C5_BadRequestNoMutation ==
    [][\A r \in Requests :
          (Receives(r) /\ (~Truthy(loc'[r].msg) \/ ~Truthy(loc'[r].tid))) =>
              /\ pc'[r] = "done"
              /\ resp'[r].status = 400
              /\ resp'[r].error = "Bad Request"
              /\ sessions' = sessions
              /\ memory' = memory
              /\ gen_calls'[r] = 0
              /\ model_calls'[r] = 0]_vars

\* C5 witness: a request with an empty message was answered 400 while a
\* session was stored.
C5_Witness ==
    \E r \in Requests :
        /\ resp[r].status = 400
        /\ loc[r].msg = ""
        /\ Len(sessions) > 0

\* s is t with records appended at the end of its transcript, or t itself.
Extends(s, t) ==
    /\ s.thread_id = t.thread_id
    /\ s.user_id = t.user_id
    /\ s.patient_name = t.patient_name
    /\ s.disease = t.disease
    /\ s.patient_data = t.patient_data
    /\ s.created_at = t.created_at
    /\ Len(s.messages) >= Len(t.messages)
    /\ SubSeq(s.messages, 1, Len(t.messages)) = t.messages

\* C7: a stored session is never deleted, and every step leaves its
\* thread_id, owner, patient case and created_at as they are and changes
\* its transcript only by appending records; a request received once its
\* thread_id has a session stores no session and changes no session of
\* another thread_id.
C7_SessionsOnlyGrowByAppend ==
    [][/\ Len(sessions') >= Len(sessions)
       /\ \A i \in 1..Len(sessions) : Extends(sessions'[i], sessions[i])
       /\ \A r \in Requests :
             (loc[r].found /\ pc'[r] # pc[r]) =>
                 /\ Len(sessions') = Len(sessions)
                 /\ \A i \in 1..Len(sessions) :
                       sessions'[i] # sessions[i] =>
                           sessions[i].thread_id = loc[r].tid]_vars

\* C7 witness: a later request appended a second turn to a stored session.
C7_Witness ==
    \E i \in 1..Len(sessions) : Len(sessions[i].messages) = 4

\* C6: for either store and every user, get_sessions lists exactly the
\* stored sessions of that user, each once, none of another user, ordered
\* by created_at, newest first.
C6_ListsOwnSessionsNewestFirst ==
    \A mongo \in BOOLEAN, u \in Uids :
        LET l == listed_sessions(mongo, sessions, u)
        IN  /\ Len(l) = Cardinality({i \in 1..Len(sessions) : sessions[i].user_id = u})
            /\ \A i \in 1..Len(l) :
                  /\ l[i].user_id = u
                  /\ \E j \in 1..Len(sessions) : sessions[j] = l[i]
            /\ \A i, j \in 1..Len(l) : i < j =>
                  /\ l[i] # l[j]
                  /\ l[i].created_at >= l[j].created_at

\* The display fields of a patient case.
DisplayFields(p) == [name |-> p.name, age |-> p.age, sex |-> p.sex]

\* C8: the patient_info of every 200 answer equals the name, age and sex of
\* the patient case stored for the request's thread, so all 200 answers on
\* one thread_id report the same patient.
C8_ResponseReportsStoredPatient ==
    \A r \in Requests :
        resp[r].status = 200 =>
            LET i == find_one(sessions, loc[r].tid)
            IN  /\ i # 0
                /\ resp[r].patient_info = DisplayFields(sessions[i].patient_data)
                /\ \A q \in Requests :
                      (resp[q].status = 200 /\ loc[q].tid = loc[r].tid) =>
                          resp[q].patient_info = resp[r].patient_info

\* C9: every chat request with user_id, thread_id and message present is
\* answered 200 with the reply and patient_info, or 500 with the handler's
\* JSON error body; no exception leaves the handler.
C9_ChatAnswers200Or500Json ==
    \A r \in Requests :
        (/\ pc[r] = "done"
         /\ resp[r].status # 0
         /\ Truthy(loc[r].uid) /\ Truthy(loc[r].tid) /\ Truthy(loc[r].msg)) =>
            /\ resp[r].kind = "json"
            /\ \/ resp[r].status = 200
               \/ resp[r].status = 500 /\ resp[r].error = "Internal server error"

\* C10: in every stored session visible_symptoms is a sequence; a patient
\* case parsed from an object whose visible_symptoms is one string is stored
\* with the one-element sequence holding that string.
C10_VisibleSymptomsStoredAsSequence ==
    \A i \in 1..Len(sessions) :
        LET p == sessions[i].patient_data
        IN  /\ p.visible_symptoms.kind = "list"
            /\ \A tok \in BodyTokens :
                  (/\ Body(tok).visible_symptoms.kind = "str"
                   /\ [p EXCEPT !.visible_symptoms = Body(tok).visible_symptoms]
                        = Body(tok)) =>
                      p.visible_symptoms = List(<<Body(tok).visible_symptoms.s>>)

\* Number of transcript records stored for thread t.
RECURSIVE RecordsOf(_, _)
RecordsOf(ss, t) ==
    IF ss = <<>> THEN 0
    ELSE (IF Head(ss).thread_id = t THEN Len(Head(ss).messages) ELSE 0)
            + RecordsOf(Tail(ss), t)

\* C11: each chat call answered 200 adds exactly two records to its thread's
\* transcript and no other step adds or removes any, so after n calls
\* answered 200 on a thread, sequential or concurrent, the thread's
\* transcript holds exactly 2n records.
C11_TwoRecordsPerSuccessfulCall ==
    [][\A t \in Tids :
          LET n == Cardinality({r \in Requests :
                                   /\ Saves(r)
                                   /\ loc[r].tid = t
                                   /\ resp'[r].status = 200})
          IN  RecordsOf(sessions', t) = RecordsOf(sessions, t) + 2 * n]_vars

\* C12: in every reachable state no two stored users share a username,
\* whatever the interleaving of the register requests.
C12_UsernamesUnique ==
    \A i, j \in 1..Len(users) :
        i # j => users[i].username # users[j].username

\* A transcript of strict request/response pairs: even length, a Doctor
\* record at every odd position, a Patient record at every even one.
StrictPairs(ms) ==
    /\ Len(ms) % 2 = 0
    /\ \A k \in 1..Len(ms) :
          ms[k].role = (IF k % 2 = 1 THEN "Doctor" ELSE "Patient")

\* C13: every transcript is a sequence of strict Doctor/Patient pairs, also
\* when turns on one thread_id interleave: a transcript changes only in the
\* step that saves a turn, and that step appends the turn's utterance
\* followed by the reply the model call of that turn gave to a message
\* list ending with that utterance.
C13_TranscriptsAreStrictPairs ==
    [][/\ \A i \in 1..Len(sessions') : StrictPairs(sessions'[i].messages)
       /\ \A r \in Requests :
             Saves(r) =>
                 LET st == loc[r].state
                     n == Len(st)
                 IN  /\ n >= 2
                     /\ st[n - 1] = HumanMessage(<<loc[r].msg>>)
                     /\ AppendsTo(loc[r].tid,
                                  << [role |-> "Doctor", content |-> st[n - 1].content[1]],
                                     [role |-> "Patient", content |-> st[n].content[1]] >>)
       /\ (\A r \in Requests : ~Saves(r)) =>
             \A i \in 1..Len(sessions) :
                 sessions'[i].messages = sessions[i].messages]_vars

\* C13 witness: two turns that ran side by side on one new thread_id, one
\* with a model reply and one with a failed model call, are both saved in
\* the same transcript.
C13_Witness ==
    \E i \in 1..Len(sessions) :
        /\ Cardinality(SessionsOf(sessions[i].thread_id)) = 2
        /\ Len(sessions[i].messages) = 4
        /\ sessions[i].messages[2].content # sessions[i].messages[4].content

\* C14: whenever the conversational model is invoked for a thread, the
\* message list it sees begins with the persona instructions of the patient
\* stored for that thread, holds no other instruction message, continues
\* with the utterances and replies of the thread's transcript in transcript
\* order, and ends with the new utterance.
C14_ModelSeesPersonaAndHistory ==
    \A r \in Requests :
        pc[r] = "node" =>
            LET st == loc[r].state
                n == Len(st)
                i == find_one(sessions, loc[r].tid)
            IN  /\ i # 0
                /\ n >= 2
                /\ st[1] = SystemMessage(
                              build_system_prompt(sessions[i].patient_data).val)
                /\ \A k \in 2..n : st[k].type # "system"
                /\ [k \in 1..(n - 2) |-> st[k + 1].content[1]]
                      = [k \in 1..Len(sessions[i].messages) |->
                            sessions[i].messages[k].content]
                /\ st[n] = HumanMessage(<<loc[r].msg>>)

\* C15: a request finds its thread's session exactly when one is stored as
\* it is received; a turn answered 200 has called the conversational model
\* once, the profile generator once when it created the session and not at
\* all when it found it, and has written to the session store twice when it
\* created the session (insert, append) and once when it found it (append).
C15_CallsAndWritesPerTurn ==
    [][\A r \in Requests :
          /\ (Receives(r) /\ pc'[r] # "done") =>
                (loc'[r].found <=> SessionsOf(loc'[r].tid) # {})
          /\ (Saves(r) /\ resp'[r].status = 200) =>
                /\ model_calls'[r] = 1
                /\ gen_calls'[r] = (IF loc[r].found THEN 0 ELSE 1)
                /\ store_writes'[r] = (IF loc[r].found THEN 1 ELSE 2)
                /\ Len(sessions') = Len(sessions)]_vars

\* C15 witness: a turn that created a session and a turn that found it
\* have both been answered 200.
C15_Witness ==
    \E r, q \in Requests :
        /\ resp[r].status = 200 /\ gen_calls[r] = 1 /\ store_writes[r] = 2
        /\ resp[q].status = 200 /\ gen_calls[q] = 0 /\ store_writes[q] = 1
        /\ model_calls[r] = 1 /\ model_calls[q] = 1

\* The stored sessions of thread t, in store order.
RECURSIVE StoredFor(_, _)
StoredFor(ss, t) ==
    IF ss = <<>> THEN <<>>
    ELSE IF Head(ss).thread_id = t THEN <<Head(ss)>> \o StoredFor(Tail(ss), t)
    ELSE StoredFor(Tail(ss), t)

\* Thread b is as it was: its stored sessions with their transcripts, and
\* the model's memory of it.
ThreadUntouched(b) ==
    /\ StoredFor(sessions', b) = StoredFor(sessions, b)
    /\ memory'[b] = memory[b]

\* C16: every step of a chat turn on thread_id A, from its receipt to its
\* answer and under any interleaving with other turns, leaves the stored
\* sessions, the transcripts and the model memory of every other thread_id
\* as they are.
C16_OtherThreadsUntouched ==
    [][\A r \in Requests :
          /\ Receives(r) =>
                \A b \in Tids \ {loc'[r].tid} : ThreadUntouched(b)
          /\ (pc[r] # "done" /\ pc'[r] # pc[r]) =>
                \A b \in Tids \ {loc[r].tid} : ThreadUntouched(b)]_vars

\* C16 witness: turns on two thread_ids have both stored a session, saved
\* a pair of records and left model memory.
C16_Witness ==
    \E i, j \in 1..Len(sessions) :
        /\ sessions[i].thread_id # sessions[j].thread_id
        /\ Len(sessions[i].messages) = 2
        /\ Len(sessions[j].messages) = 2
        /\ memory[sessions[i].thread_id] # <<>>
        /\ memory[sessions[j].thread_id] # <<>>

\* C17: the step that saves a turn submitted with user_id U appends only
\* to a session owned by U, and a 200 answer to that turn reports the
\* patient of a session owned by U.
C17_TurnsTouchOnlyOwnSessions ==
    [][\A r \in Requests :
          Saves(r) =>
              /\ \A i \in 1..Len(sessions) :
                    sessions'[i].messages # sessions[i].messages =>
                        sessions[i].user_id = loc[r].uid
              /\ resp'[r].status = 200 =>
                    LET i == find_one(sessions, loc[r].tid)
                    IN  i # 0 /\ sessions[i].user_id = loc[r].uid]_vars

\* C18: a chat request that is answered with another status than 200 has
\* written nothing to the session store: the step that answers it leaves
\* the store as it is and the request has made no store write before, so
\* no session of a failed first turn is stored.
C18_FailedTurnLeavesStore ==
    [][\A r \in Requests :
          (/\ Receives(r) \/ pc[r] # "done"
           /\ pc'[r] = "done"
           /\ resp'[r].status # 200) =>
              /\ sessions' = sessions
              /\ store_writes'[r] = 0]_vars

====
